---- MODULE Spec2Model ----
(***************************************************************************)
(* State-machine model of the AERIS weather node server.                   *)
(*                                                                         *)
(* The v3 Controller (src/nodes/aeris.py) is modelled as one atomic action *)
(* per handler: parameterHandler, start, poll (short and long) and the     *)
(* REMOVE_NOTICES_ALL command.  HTTP responses are inputs of the polls.    *)
(*                                                                         *)
(* node_funcs.NSParameters, node_funcs.update_driver's v3 variant,         *)
(* and nodes/weather_codes.py are not part of the available sources; the   *)
(* operators standing for them follow the specification and say so in      *)
(* their comments.  self.uom (nodes/uom.py) and the forecast entities' own *)
(* drivers (nodes/aeris_daily.py) are read by no modelled code and are     *)
(* left out.  The host keeps the driver values; the model records the      *)
(* setDriver calls each handler makes.                                     *)
(*                                                                         *)
(* The legacy Controller (src/aeris.py) is a program of its own: its       *)
(* fields are the record `legacy`, its handlers carry the prefix legacy_   *)
(* where the v3 Controller has a method of the same name, and the          *)
(* specifications SpecLegacy, SpecLegacyFc and SpecSink run it; its driver *)
(* values are the field `drivers` of the record.  Each specification runs  *)
(* one of the two Controllers; the other stays as constructed.             *)
(***************************************************************************)
EXTENDS Integers, Sequences, FiniteSets, TLC

VARIABLES
    params,      \* self.params: the current value of every parameter
    configured,  \* self.configured
    force,       \* self.force
    latitude,    \* self.latitude
    tag,         \* self.tag: logical field name -> provider key
    Notices,     \* self.Notices: names of the parameters with an active notice
    nodes,       \* day indices d for which the entity forecast_<d> exists
    started,     \* start() has run
    obs,         \* history: the query_conditions run of the latest handler
    fc,          \* history: the query_forecast run of the latest handler
    reconciled,  \* history: the latest handler ran discover to its end
    disc,        \* history: the discover run of the latest handler
    legacy,      \* the fields of the legacy Controller (src/aeris.py)
    lhist        \* history: the latest handler of the legacy Controller

\* the state of the v3 Controller
v3vars == <<params, configured, force, latitude, tag, Notices, nodes,
            started, obs, fc, reconciled, disc>>

\* the state of the legacy Controller
legacyvars == <<legacy, lhist>>

vars == <<v3vars, legacyvars>>

----------------------------------------------------------------------------
(* Bounds and program constants *)

\* largest 'Forecast Days' value a user enters
MaxForecastDays == 9
\* largest number of periods in a forecast response
MaxPeriods == 4
\* largest number of sub-day buckets in a legacy forecast response
MaxBuckets == 3
\* legacy query_forecast: "self.fcast['pressure'] /= 8"
FixedDivisor == 8
\* check_params: "if int(self.params.get('Forecast Days')) > 6"
MaxHorizon == 6
\* discover: "if num_days < 7" / "range(num_days, 7)"
MaxNodes == 7

\* 'Forecast Days' values used as inputs
DayChoices == {0, 3, 5, MaxForecastDays}

----------------------------------------------------------------------------
(* JSON values: <<>> is null (None), <<n>> is the number n, <<"str", s>> is *)
(* the string s                                                            *)

JNull == <<>>
Num(n) == <<n>>
Str(s) == <<"str", s>>
\* the strings float() parses, and the numbers it returns for them
Numerals == {"12", "0"}
NumeralValue(s) == IF s = "12" THEN 12 ELSE 0
\* float(value) succeeds: a number, or a string that is a numeral (None
\* raises TypeError, any other string ValueError)
IsNumeric(v) == Len(v) = 1 \/ (Len(v) = 2 /\ v[2] \in Numerals)
\* float(value)
Float(v) == IF Len(v) = 1 THEN v[1] ELSE NumeralValue(v[2])

----------------------------------------------------------------------------
(* Parameters (node_funcs.NSParameters, modelled from the specification) *)

RequiredParams == {"ClientID", "ClientSecret", "Location"}

\* __init__: the 'default' of each entry handed to NSParameters
DefaultParams ==
    [ClientID |-> "set me", ClientSecret |-> "set me", Location |-> "set me",
     Units |-> "imperial", ForecastDays |-> 0, Elevation |-> "0",
     PlantType |-> "0.23"]

\* NSParameters.isSet: the parameter holds a non-empty, non-default value
isSet(p, name) ==
    /\ p[name] # DefaultParams[name]
    /\ name # "ForecastDays" => p[name] # ""

\* NSParameters.isConfigured: every required parameter is non-empty/non-default
isConfigured(p) == \A name \in RequiredParams : isSet(p, name)

\* NSParameters.update: the loaded custom parameters become the current values
update(p, loaded) == [name \in DOMAIN p |->
                        IF name \in DOMAIN loaded THEN loaded[name] ELSE p[name]]

\* NSParameters.activeNotices: one notice per unset required parameter
activeNotices(p) == {name \in RequiredParams : ~isSet(p, name)}

----------------------------------------------------------------------------
(* set_tags *)

MetricTags ==
    [temperature |-> "tempC", humidity |-> "humidity", pressure |-> "pressureMB",
     windspeed |-> "windSpeedKPH", gustspeed |-> "windGustKPH",
     winddir |-> "windDirDEG", visibility |-> "visibilityKM",
     precipitation |-> "precipMM", snow |-> "snowDepthCM", snowf |-> "snowCM",
     dewpoint |-> "dewpointC", heatindex |-> "heatindexC",
     windchill |-> "windchillC", feelslike |-> "feelslikeC",
     solarrad |-> "solradWM2", sky |-> "sky", temp_min |-> "minTempC",
     temp_max |-> "maxTempC", humidity_min |-> "minHumidity",
     humidity_max |-> "maxHumidity", wind_min |-> "windSpeedMinKPH",
     wind_max |-> "windSpeedMaxKPH", winddir_min |-> "windDirMinDEG",
     winddir_max |-> "windDirMaxDEG", uv |-> "uvi", pop |-> "pop",
     timestamp |-> "timestamp", precip_summary |-> "totalMM"]

ImperialTags ==
    [temperature |-> "tempF", humidity |-> "humidity", pressure |-> "pressureIN",
     windspeed |-> "windSpeedMPH", gustspeed |-> "windGustMPH",
     winddir |-> "windDirDEG", visibility |-> "visibilityMI",
     precipitation |-> "precipIN", snow |-> "snowDepthIN", snowf |-> "snowIN",
     dewpoint |-> "dewpointF", heatindex |-> "heatindexF",
     windchill |-> "windchillF", feelslike |-> "feelslikeF",
     solarrad |-> "solradWM2", sky |-> "sky", temp_min |-> "minTempF",
     temp_max |-> "maxTempF", humidity_min |-> "minHumidity",
     humidity_max |-> "maxHumidity", wind_min |-> "windSpeedMinMPH",
     wind_max |-> "windSpeedMaxMPH", winddir_min |-> "windDirMinDEG",
     winddir_max |-> "windDirMaxDEG", uv |-> "uvi", pop |-> "pop",
     timestamp |-> "timestamp", precip_summary |-> "totalIN"]

\* self.tag = {}
EmptyTag == [k \in {} |-> ""]

\* the assignments of the branch set_tags takes for `units`
TagBranch(units) == IF units = "metric" THEN MetricTags ELSE ImperialTags

\* a faulty set_tags: the metric branch lacks the assignment of
\* self.tag['precip_summary']
set_tags_without_summary(t, units) ==
    [k \in ((DOMAIN t) \cup DOMAIN TagBranch(units))
              \ (IF units = "metric" THEN {"precip_summary"} ELSE {}) |->
        IF k \in DOMAIN TagBranch(units) THEN TagBranch(units)[k] ELSE t[k]]

\* set_tags assigns into the existing dictionary, entry by entry
set_tags(t, units) ==
    [k \in (DOMAIN t) \cup DOMAIN TagBranch(units) |->
        IF k \in DOMAIN TagBranch(units) THEN TagBranch(units)[k] ELSE t[k]]

----------------------------------------------------------------------------
(* Driver sink *)

\* a faulty update_driver: a value float() rejects sets the driver to 0
update_driver_defaulting(w, driver, value) ==
    Append(w, <<driver, IF IsNumeric(value) THEN Float(value) ELSE 0>>)

\* update_driver: setDriver(driver, float(value)) inside try/except; a value
\* float() rejects is skipped.  The driver values themselves are kept by the
\* host; the model records the setDriver calls of a handler, in order: `w` is
\* the sequence of <<driver, value>> set so far.  (The v3 Controller takes
\* update_driver from node_funcs; the specification gives it the contract of
\* the one in src/aeris.py.)
update_driver(w, driver, value) ==
    IF IsNumeric(value) THEN Append(w, <<driver, Float(value)>>) ELSE w

----------------------------------------------------------------------------
(* query_conditions *)

\* the statements of the first try block after `ob = jdata['response']['ob']`,
\* in program order
ObsSteps ==
    << [op |-> "field", driver |-> "CLITEMP", field |-> "temperature", idx |-> 0],
       [op |-> "field", driver |-> "CLIHUM",  field |-> "humidity",    idx |-> 0],
       [op |-> "field", driver |-> "BARPRES", field |-> "pressure",    idx |-> 0],
       [op |-> "field", driver |-> "SPEED",   field |-> "windspeed",   idx |-> 0],
       [op |-> "field", driver |-> "GV5",     field |-> "gustspeed",   idx |-> 0],
       [op |-> "field", driver |-> "WINDDIR", field |-> "winddir",     idx |-> 0],
       [op |-> "field", driver |-> "DISTANC", field |-> "visibility",  idx |-> 0],
       [op |-> "field", driver |-> "DEWPT",   field |-> "dewpoint",    idx |-> 0],
       [op |-> "field", driver |-> "GV3",     field |-> "heatindex",   idx |-> 0],
       [op |-> "field", driver |-> "GV4",     field |-> "windchill",   idx |-> 0],
       [op |-> "field", driver |-> "GV2",     field |-> "feelslike",   idx |-> 0],
       [op |-> "field", driver |-> "SOLRAD",  field |-> "solarrad",    idx |-> 0],
       [op |-> "field", driver |-> "UV",      field |-> "uv",          idx |-> 0],
       [op |-> "field", driver |-> "GV15",    field |-> "snow",        idx |-> 0],
       [op |-> "log",   driver |-> "",        field |-> "",            idx |-> 0],
       [op |-> "code",  driver |-> "GV11",    field |-> "",            idx |-> 0],
       [op |-> "code",  driver |-> "GV12",    field |-> "",            idx |-> 1],
       [op |-> "code",  driver |-> "GV13",    field |-> "",            idx |-> 2],
       [op |-> "sky",   driver |-> "GV14",    field |-> "",            idx |-> 0],
       [op |-> "precip", driver |-> "",       field |-> "precipitation", idx |-> 0] >>

\* the logical fields query_conditions looks up in self.tag for the primary ob
ObsFields == {ObsSteps[i].field : i \in {j \in 1..Len(ObsSteps) :
                                          ObsSteps[j].field # ""}}

\* the keys an observation object carries (both unit systems, as the
\* provider sends them)
ObKeys == {MetricTags[f] : f \in ObsFields} \cup {ImperialTags[f] : f \in ObsFields}
          \cup {"weatherCoded", "sky"}

\* the keys only the metric tag map names
MetricOnlyKeys ==
    {MetricTags[f] : f \in ObsFields} \ {ImperialTags[f] : f \in ObsFields}

\* the number a provider key carries in the modelled payloads
KeyValue(k) ==
    CASE k = "precipMM" -> 6
      [] k = "precipIN" -> 5
      [] k \in MetricOnlyKeys -> 2
      [] OTHER -> 1

\* ob[k] for a key the object has
ObValue(ob, k) == IF k \in ob.nulls THEN JNull ELSE Num(KeyValue(k))

\* wx.coverage_codes / intensity_codes / weather_codes (nodes/weather_codes.py,
\* modelled from the specification: every segment maps to a code, an
\* unrecognised one to the "unknown" code)
wx_code(idx) == Num(idx + 1)

\* the logical fields query_conditions looks up in self.tag: those of the
\* first try block and rd['precip'][self.tag['precip_summary']] of the second
LookedUpFields == ObsFields \cup {"precip_summary"}

\* the statement raises (KeyError on self.tag or on ob, IndexError on the
\* split list, TypeError on a null weatherCoded)
StepRaises(s, t, ob) ==
    CASE s.op \in {"field", "precip"} ->
            \/ s.field \notin DOMAIN t
            \/ t[s.field] \notin ob.keys
      [] s.op = "log"  -> "weatherCoded" \notin ob.keys \/ "weatherCoded" \in ob.nulls
      [] s.op = "code" -> s.idx >= ob.segs
      [] s.op = "sky"  -> "sky" \notin ob.keys

\* the effect of a statement that does not raise, on acc = [writes, precipitation]
StepEffect(s, t, ob, acc) ==
    CASE s.op = "field"  ->
            [acc EXCEPT !.writes = update_driver(@, s.driver, ObValue(ob, t[s.field]))]
      [] s.op = "log"    -> acc
      [] s.op = "code"   ->
            [acc EXCEPT !.writes = update_driver(@, s.driver, wx_code(s.idx))]
      [] s.op = "sky"    ->
            [acc EXCEPT !.writes = update_driver(@, s.driver, ObValue(ob, "sky"))]
      [] s.op = "precip" ->
            [acc EXCEPT !.precipitation = ObValue(ob, t[s.field])]

\* the statements run in order; the first one that raises leaves the try block
RECURSIVE RunSteps(_, _, _, _)
RunSteps(i, t, ob, acc) ==
    IF i > Len(ObsSteps) THEN acc
    ELSE IF StepRaises(ObsSteps[i], t, ob) THEN acc
    ELSE RunSteps(i + 1, t, ob, StepEffect(ObsSteps[i], t, ob, acc))

\* a faulty first try block: a response without a location resets the
\* latitude to 0
PrimaryQuery_resetting(t, lat, primary) ==
    IF primary.kind \in {"none", "noResponse", "noOb"}
    THEN [returned |-> TRUE, latitude |-> lat, writes |-> <<>>,
          precipitation |-> Num(0)]
    ELSE LET acc == RunSteps(1, t, primary,
                             [writes |-> <<>>, precipitation |-> Num(0)])
         IN  [returned |-> FALSE,
              latitude |-> IF primary.loc # <<>> THEN Float(primary.loc) ELSE 0,
              writes |-> acc.writes,
              precipitation |-> acc.precipitation]

\* first try block of query_conditions: [returned, latitude, writes,
\* precipitation].  primary.loc is <<>> when the response has no loc.lat and
\* <<lat>> when it has.
PrimaryQuery(t, lat, primary) ==
    IF primary.kind \in {"none", "noResponse", "noOb"}
    THEN [returned |-> TRUE, latitude |-> lat, writes |-> <<>>,
          precipitation |-> Num(0)]
    ELSE LET acc == RunSteps(1, t, primary,
                             [writes |-> <<>>, precipitation |-> Num(0)])
         IN  [returned |-> FALSE,
              latitude |-> IF primary.loc # <<>> THEN Float(primary.loc) ELSE lat,
              writes |-> acc.writes,
              precipitation |-> acc.precipitation]

\* the number a precipitation-summary total carries
TotalValue(k) == IF k = "totalMM" THEN 8 ELSE 7

\* second try block of query_conditions: the writes after it, given the
\* writes `w` and the `precipitation` of the first
SummaryQuery(t, w, precipitation, summary) ==
    CASE summary.kind \in {"none", "noResponse"} -> w
      [] summary.kind = "noPeriods" -> update_driver(w, "GV6", precipitation)
      [] summary.kind = "noPrecip"  -> w
      [] summary.kind = "precip"    ->
            IF "precip_summary" \in DOMAIN t /\ t["precip_summary"] \in summary.totals
            THEN update_driver(w, "GV6", Num(TotalValue(t["precip_summary"])))
            ELSE update_driver(w, "GV6", precipitation)

\* query_conditions: [ran, requests, writes, latitude, primary, summary]
query_conditions(cfg, t, lat, primary, summary) ==
    IF ~cfg
    THEN [ran |-> TRUE, requests |-> <<>>, writes |-> <<>>, latitude |-> lat,
          primary |-> primary, summary |-> summary]
    ELSE LET first == PrimaryQuery(t, lat, primary)
         IN  IF first.returned
             THEN [ran |-> TRUE, requests |-> <<"observations">>,
                   writes |-> <<>>, latitude |-> lat,
                   primary |-> primary, summary |-> summary]
             ELSE [ran |-> TRUE,
                   requests |-> <<"observations", "observations/summary">>,
                   writes |-> SummaryQuery(t, first.writes, first.precipitation,
                                           summary),
                   latitude |-> first.latitude,
                   primary |-> primary, summary |-> summary]

----------------------------------------------------------------------------
(* query_forecast and discover *)

\* one element of jdata['response'][0]['periods']: the provider's record of
\* one day, midnight to midnight, carrying values under the keys of both unit
\* systems
Period(stamp, level) ==
    [dateTimeISO |-> stamp, maxTempC |-> 10 * level, maxTempF |-> 50 + 18 * level,
     minTempC |-> 10 * level - 5, minTempF |-> 41 + 18 * level, pop |-> 30 * level]

\* a faulty dispatch: the record handed on has lost its probability of
\* precipitation
update_forecast_altered(day, forecast, lat, p, t, frc) ==
    [day |-> day, forecast |-> [forecast EXCEPT !.pop = 0], latitude |-> lat,
     elevation |-> p.Elevation, plant_type |-> p.PlantType, tag |-> t,
     force |-> frc]

\* the arguments of self.nodes['forecast_<day>'].update_forecast(forecast,
\* self.latitude, self.params.get('Elevation'),
\* self.params.get('Plant Type'), self.tag, self.force)
update_forecast(day, forecast, lat, p, t, frc) ==
    [day |-> day, forecast |-> forecast, latitude |-> lat,
     elevation |-> p.Elevation, plant_type |-> p.PlantType, tag |-> t,
     force |-> frc]

\* the loop over jdata['response'][0]['periods']: period `day` (from 0) goes
\* to self.nodes['forecast_<day>']; a missing entity raises KeyError, which
\* leaves the try block; the loop returns once day + 1 >= 'Forecast Days'.
\* ctx holds the fields the call reads: latitude, params, tag, force.
RECURSIVE Dispatch(_, _, _, _, _)
Dispatch(day, periods, nds, ctx, acc) ==
    IF day >= Len(periods) THEN acc
    ELSE IF day \notin nds
         THEN [acc EXCEPT !.attempts = Append(@, day)]
         ELSE LET next == [attempts |-> Append(acc.attempts, day),
                           delivered |-> Append(acc.delivered, day),
                           calls |-> Append(acc.calls,
                               update_forecast(day, periods[day + 1],
                                   ctx.latitude, ctx.params, ctx.tag, ctx.force))]
              IN  IF day + 1 >= ctx.params.ForecastDays THEN next
                  ELSE Dispatch(day + 1, periods, nds, ctx, next)

NoDispatch == [attempts |-> <<>>, delivered |-> <<>>, calls |-> <<>>]

\* a faulty query_forecast: a failed request is issued a second time
query_forecast_retrying(cfg, nds, ctx, resp) ==
    IF ~cfg
    THEN [ran |-> TRUE, requests |-> <<>>, attempts |-> <<>>,
          delivered |-> <<>>, force |-> ctx.force, calls |-> <<>>,
          periods |-> <<>>]
    ELSE LET d == IF resp.kind = "periods"
                  THEN Dispatch(0, resp.periods, nds, ctx, NoDispatch)
                  ELSE NoDispatch
         IN  [ran |-> TRUE,
              requests |-> IF resp.kind = "none"
                           THEN <<"forecasts", "forecasts">> ELSE <<"forecasts">>,
              attempts |-> d.attempts, delivered |-> d.delivered,
              force |-> ctx.force, calls |-> d.calls,
              periods |-> resp.periods]

\* query_forecast: [ran, requests, attempts, delivered, force, calls, periods];
\* ctx holds the fields it reads: latitude, params, tag, force
query_forecast(cfg, nds, ctx, resp) ==
    IF ~cfg
    THEN [ran |-> TRUE, requests |-> <<>>, attempts |-> <<>>,
          delivered |-> <<>>, force |-> ctx.force, calls |-> <<>>,
          periods |-> <<>>]
    ELSE LET d == IF resp.kind = "periods"
                  THEN Dispatch(0, resp.periods, nds, ctx, NoDispatch)
                  ELSE NoDispatch
         IN  [ran |-> TRUE, requests |-> <<"forecasts">>,
              attempts |-> d.attempts, delivered |-> d.delivered,
              force |-> ctx.force, calls |-> d.calls,
              periods |-> resp.periods]

\* the host's failures during one discover: delNode raises for the indices of
\* `del`, DailyNode()/addNode raises for those of `add`
NoFaults == [del |-> {}, add |-> {}]

\* set_driver_uom raises: self.nodes['forecast_<day>'] is looked up for every
\* day of range(0, 'Forecast Days') outside any try block (KeyError for a
\* missing entity)
set_driver_uom(nds, h) == \E day \in 0..(h - 1) : day \notin nds

\* discover: delNode for range(num_days, 7) when num_days < 7, then addNode
\* for range(0, num_days), each inside its own try/except, then
\* set_driver_uom: [nodes, raised].  A failed delNode leaves the entity, a
\* failed addNode creates none.
discover(nds, h, faults) ==
    LET kept == IF h < MaxNodes
                THEN nds \ ((h..(MaxNodes - 1)) \ faults.del)
                ELSE nds
        made == kept \cup ((0..(h - 1)) \ faults.add)
    IN  [nodes |-> made, raised |-> set_driver_uom(made, h)]

----------------------------------------------------------------------------
(* History values of a handler that ran no query / no discover *)

NoPrimary == [kind |-> "none", loc |-> <<>>, keys |-> {}, nulls |-> {}, segs |-> 0]
NoSummary == [kind |-> "none", totals |-> {}]
NoObs == [ran |-> FALSE, requests |-> <<>>, writes |-> <<>>,
          primary |-> NoPrimary, summary |-> NoSummary]
NoFc == [ran |-> FALSE, requests |-> <<>>, attempts |-> <<>>, delivered |-> <<>>,
         force |-> FALSE, calls |-> <<>>, periods |-> <<>>]

NoDisc == [ran |-> FALSE, raised |-> FALSE, faults |-> NoFaults]

ObsRecord(q) == [ran |-> q.ran, requests |-> q.requests, writes |-> q.writes,
                 primary |-> q.primary, summary |-> q.summary]

DiscRecord(d, faults) == [ran |-> TRUE, raised |-> d.raised, faults |-> faults]

----------------------------------------------------------------------------
(* The legacy Controller as constructed (src/aeris.py, __init__) *)

\* self.myConfig = {} and self.fcast = {}
EmptyDict == [k \in {} |-> ""]

\* __init__: self.elevation = 0 and self.plant_type = 0.23 are numbers, the
\* values of customParams are strings; a number never equals a string
InitElevation == "0 (number)"
InitPlantType == "0.23 (number)"

\* the class attribute `drivers`: every driver with its initial value and
\* unit of measure; <<value, units>>, the unit of measure being named by the
\* unit system whose table holds it
LegacyDrivers ==
    {"ST", "CLITEMP", "CLIHUM", "BARPRES", "WINDDIR", "GV0", "GV1", "GV4",
     "GV6", "GV13", "GV14", "GV15", "GV16"}
LegacyDriverInit ==
    [d \in LegacyDrivers |-> <<IF d = "ST" THEN 1 ELSE 0, "metric">>]

\* uom: "" stands for the empty dictionary, otherwise the unit system whose
\* table set_driver_uom installed.  nodes: the day indices d with an entry
\* 'forecast_<d>' in self.nodes.  notices: the notices shown by addNotice.
\* started: start() has run.  drivers: the driver values setDriver keeps.
LegacyInit ==
    [location |-> "", apikey |-> "", units |-> "metric", configured |-> FALSE,
     myConfig |-> EmptyDict, latitude |-> 0, fcast |-> EmptyDict,
     plant_type |-> InitPlantType, elevation |-> InitElevation, uom |-> "",
     nodes |-> {}, notices |-> {}, started |-> FALSE,
     drivers |-> LegacyDriverInit]

\* history of a legacy handler: the method that ran, whether an exception
\* left it, the endpoints it requested, its setDriver calls, the days
\* query_forecast closed, whether its loop ended inside a day, and the
\* arguments of a call of update_driver
LegacyRun(op, raised, requests, writes) ==
    [op |-> op, raised |-> raised, requests |-> requests, writes |-> writes,
     closes |-> <<>>, open |-> FALSE, call |-> <<>>]

\* history of a state no legacy handler has led to
NoLegacyRun == LegacyRun("none", FALSE, <<>>, <<>>)

----------------------------------------------------------------------------
(* Initial state: Controller.__init__ *)

Init ==
    /\ params = DefaultParams
    /\ configured = FALSE
    /\ force = TRUE
    /\ latitude = 0
    /\ tag = EmptyTag
    /\ Notices = {}
    /\ nodes = {}
    /\ started = FALSE
    /\ obs = NoObs
    /\ fc = NoFc
    /\ reconciled = FALSE
    /\ disc = NoDisc
    /\ legacy = LegacyInit
    /\ lhist = NoLegacyRun

----------------------------------------------------------------------------
(* Handlers *)

\* parameterHandler(params); discover is its last statement, so an exception
\* of discover leaves it with everything before done
parameterHandler(loaded, faults) ==
    LET p == update(params, loaded)
        d == discover(nodes, p.ForecastDays, faults)
    IN
    /\ params' = p
    /\ IF isConfigured(p)
       THEN /\ Notices' = {}
            /\ configured' = TRUE
            /\ IF isSet(p, "ForecastDays")
               THEN /\ nodes' = d.nodes
                    /\ reconciled' = ~d.raised
                    /\ disc' = DiscRecord(d, faults)
               ELSE /\ UNCHANGED nodes
                    /\ reconciled' = FALSE
                    /\ disc' = NoDisc
       ELSE /\ UNCHANGED <<Notices, configured, nodes>>
            /\ reconciled' = FALSE
            /\ disc' = NoDisc
    /\ obs' = NoObs
    /\ fc' = NoFc
    /\ UNCHANGED <<force, latitude, tag, started>>
    /\ UNCHANGED legacyvars

\* check_params: [params, configured, Notices] after it
check_params(p, cfg) ==
    IF isConfigured(p)
    THEN [params |-> IF p.ForecastDays > MaxHorizon
                     THEN [p EXCEPT !.ForecastDays = MaxHorizon] ELSE p,
          configured |-> TRUE,
          Notices |-> {}]
    ELSE [params |-> p, configured |-> cfg, Notices |-> activeNotices(p)]

\* start(): check_params, set_tags, discover, then the initial queries; an
\* exception of discover leaves start before the queries
start(primary, summary, resp, faults) ==
    LET c  == check_params(params, configured)
        t  == set_tags(tag, c.params.Units)
        d  == discover(nodes, c.params.ForecastDays, faults)
        qc == query_conditions(c.configured, t, latitude, primary, summary)
        qf == query_forecast(c.configured, d.nodes,
                             [latitude |-> qc.latitude, params |-> c.params,
                              tag |-> t, force |-> force], resp)
    IN
    /\ ~started
    /\ started' = TRUE
    /\ params' = c.params
    /\ configured' = c.configured
    /\ Notices' = c.Notices
    /\ tag' = t
    /\ nodes' = d.nodes
    /\ reconciled' = ~d.raised
    /\ disc' = DiscRecord(d, faults)
    /\ UNCHANGED legacyvars
    /\ IF c.configured /\ ~d.raised
       THEN /\ obs' = ObsRecord(qc)
            /\ latitude' = qc.latitude
            /\ fc' = qf
            /\ force' = FALSE
       ELSE /\ obs' = NoObs
            /\ fc' = NoFc
            /\ UNCHANGED <<latitude, force>>

\* a faulty poll(longpoll = False): it clears the notices before the query
shortPoll_clearing(primary, summary) ==
    LET qc == query_conditions(configured, tag, latitude, primary, summary) IN
    /\ Notices' = {}
    /\ obs' = ObsRecord(qc)
    /\ latitude' = qc.latitude
    /\ fc' = NoFc
    /\ reconciled' = FALSE
    /\ disc' = NoDisc
    /\ UNCHANGED <<params, configured, force, tag, nodes, started>>
    /\ UNCHANGED legacyvars

\* poll(longpoll = False): query_conditions
shortPoll(primary, summary) ==
    LET qc == query_conditions(configured, tag, latitude, primary, summary) IN
    /\ obs' = ObsRecord(qc)
    /\ latitude' = qc.latitude
    /\ fc' = NoFc
    /\ reconciled' = FALSE
    /\ disc' = NoDisc
    /\ UNCHANGED <<params, configured, force, tag, Notices, nodes, started>>
    /\ UNCHANGED legacyvars

\* poll(longpoll = True): query_forecast
longPoll(resp) ==
    /\ fc' = query_forecast(configured, nodes,
                            [latitude |-> latitude, params |-> params,
                             tag |-> tag, force |-> force], resp)
    /\ obs' = NoObs
    /\ reconciled' = FALSE
    /\ disc' = NoDisc
    /\ UNCHANGED <<params, configured, force, latitude, tag, Notices, nodes,
                   started>>
    /\ UNCHANGED legacyvars

\* the REMOVE_NOTICES_ALL command
remove_notices_all ==
    /\ Notices' = {}
    /\ obs' = NoObs
    /\ fc' = NoFc
    /\ reconciled' = FALSE
    /\ disc' = NoDisc
    /\ UNCHANGED <<params, configured, force, latitude, tag, nodes, started>>
    /\ UNCHANGED legacyvars

----------------------------------------------------------------------------
(* Inputs *)

\* an observation object with every key, a location and a three-part code
FullOb == [kind |-> "ob", loc |-> Num(45), keys |-> ObKeys, nulls |-> {}, segs |-> 3]
FullSummary == [kind |-> "precip", totals |-> {"totalMM", "totalIN"}]

\* custom parameters the host delivers
ParamInputs ==
    {l \in [ClientID : {"set me", "id"}, ClientSecret : {"set me", "secret"},
            Location : {"set me", "loc"}, Units : {"imperial", "metric"},
            ForecastDays : DayChoices] :
        Cardinality(activeNotices(l)) # 2}

\* responses of the three endpoints; kind "none" is a failed request or a
\* body that is not JSON (get_weather_data returns None)
PrimaryInputs == {NoPrimary, FullOb}
SummaryInputs == {FullSummary}
\* a response of n periods, in the order of their days
PeriodList(n) == [i \in 1..n |-> Period(i, 1 + (i % 2))]

ForecastInputs == {[kind |-> "none", periods |-> <<>>]}
                  \cup {[kind |-> "periods", periods |-> PeriodList(n)] :
                           n \in 0..MaxPeriods}

Next ==
    \/ \E l \in ParamInputs : parameterHandler(l, NoFaults)
    \/ \E pr \in PrimaryInputs, su \in SummaryInputs, r \in ForecastInputs :
          start(pr, su, r, NoFaults)
    \/ \E pr \in PrimaryInputs, su \in SummaryInputs : shortPoll(pr, su)
    \/ \E r \in ForecastInputs : longPoll(r)
    \/ remove_notices_all

Spec == Init /\ [][Next]_vars

----------------------------------------------------------------------------
(* A second specification: the same handlers from the same initial state,  *)
(* with few parameter values and many observation payloads.                *)

ParamInputsObs ==
    {l \in ParamInputs : /\ Cardinality(activeNotices(l)) \in {0, 3}
                         /\ l.ForecastDays = 0}

\* observation objects with one defect: a missing key, a null value, a coded
\* weather string of fewer than three parts, or no location
DefectiveObs ==
    {[FullOb EXCEPT !.keys = ObKeys \ {k}] : k \in ObKeys}
    \cup {[FullOb EXCEPT !.nulls = {k}] : k \in {"windGustMPH", "windGustKPH",
                                                 "precipIN", "precipMM"}}
    \cup {[FullOb EXCEPT !.segs = n] : n \in 1..2}
    \cup {[FullOb EXCEPT !.loc = <<>>]}

PrimaryInputsObs ==
    {NoPrimary, [NoPrimary EXCEPT !.kind = "noResponse"],
     [NoPrimary EXCEPT !.kind = "noOb"], FullOb} \cup DefectiveObs

SummaryInputsObs ==
    {[kind |-> k, totals |-> {}] :
        k \in {"none", "noResponse", "noPeriods", "noPrecip", "precip"}}
    \cup {FullSummary}

\* the observation objects paired with every summary response: the complete
\* one and those without a temperature or a precipitation value
VariedPrimaries ==
    {pr \in PrimaryInputsObs :
        \/ pr.kind # "ob"
        \/ pr = FullOb
        \/ pr.segs < 3
        \/ (ObKeys \ pr.keys) \cap {"tempF", "tempC", "precipIN", "precipMM"} # {}
        \/ pr.nulls \cap {"precipIN", "precipMM"} # {}}

\* <<observations response, observations/summary response>> of one poll
ObsInputsObs ==
    (PrimaryInputsObs \X {FullSummary}) \cup (VariedPrimaries \X SummaryInputsObs)

ForecastInputsObs == {[kind |-> "periods", periods |-> <<>>]}

NextObs ==
    \/ \E l \in ParamInputsObs : parameterHandler(l, NoFaults)
    \/ \E io \in ObsInputsObs, r \in ForecastInputsObs :
          start(io[1], io[2], r, NoFaults)
    \/ \E io \in ObsInputsObs : shortPoll(io[1], io[2])
    \/ \E r \in ForecastInputsObs : longPoll(r)
    \/ remove_notices_all

SpecObs == Init /\ [][NextObs]_vars

----------------------------------------------------------------------------
(* A third specification: the same handlers from the same initial state,   *)
(* with a host whose delNode / addNode calls may fail and with a Units     *)
(* value outside 'metric' / 'imperial'.                                    *)

\* what the user may type as Units
UnitsInputs == {"imperial", "metric", "kelvin"}

\* the unit systems set_tags names
ValidUnits == {"metric", "imperial"}

DiscDayChoices == {0, 1, 3}

ParamInputsDisc ==
    {l \in [ClientID : {"set me", "id"}, ClientSecret : {"set me", "secret"},
            Location : {"set me", "loc"}, Units : UnitsInputs,
            ForecastDays : DiscDayChoices] :
        Cardinality(activeNotices(l)) \in {0, 3}}

\* the indices for which one discover run finds the host failing
FaultIndices == {0, 2}
FaultInputs == [del : SUBSET FaultIndices, add : SUBSET FaultIndices]

ForecastInputsDisc ==
    {[kind |-> "periods", periods |-> PeriodList(n)] : n \in {0, 1, 3}}

NextDisc ==
    \/ \E l \in ParamInputsDisc, f \in FaultInputs : parameterHandler(l, f)
    \/ \E r \in ForecastInputsDisc, f \in FaultInputs :
          start(FullOb, FullSummary, r, f)
    \/ shortPoll(FullOb, FullSummary)
    \/ \E r \in ForecastInputsDisc : longPoll(r)
    \/ remove_notices_all

SpecDisc == Init /\ [][NextDisc]_vars

----------------------------------------------------------------------------
(* A fourth specification: the same handlers from the same initial state,  *)
(* with the Elevation and Plant Type parameters, forecast responses whose  *)
(* day records vary, and observation responses with and without a          *)
(* location.                                                               *)

ParamInputsFc ==
    [ClientID : {"set me", "id"}, ClientSecret : {"secret"}, Location : {"loc"},
     Units : {"metric"}, ForecastDays : {0, 2}, Elevation : {"0", "400"},
     PlantType : {"0.23", "0.5"}]

\* the day records a response is made of
PeriodChoices == {Period(1, 1), Period(2, 2)}

\* forecast responses: failed, and every list of up to two day records, in
\* any order and with repetitions
ForecastInputsFc ==
    {[kind |-> "none", periods |-> <<>>]}
    \cup {[kind |-> "periods", periods |-> l] :
             l \in UNION {[1..n -> PeriodChoices] : n \in 0..2}}

\* observation responses: failed, without 'response', without 'ob' (with and
\* without a location), complete with one of two latitudes, complete without
\* a location, and with a location but no temperature
PrimaryInputsFc ==
    {NoPrimary, [NoPrimary EXCEPT !.kind = "noResponse"],
     [NoPrimary EXCEPT !.kind = "noOb"],
     [NoPrimary EXCEPT !.kind = "noOb", !.loc = Num(50)],
     FullOb, [FullOb EXCEPT !.loc = Num(50)], [FullOb EXCEPT !.loc = <<>>],
     [FullOb EXCEPT !.loc = Num(50), !.keys = ObKeys \ {"tempC"}]}

NextFc ==
    \/ \E l \in ParamInputsFc : parameterHandler(l, NoFaults)
    \/ \E pr \in {NoPrimary, FullOb}, r \in ForecastInputsFc :
          start(pr, FullSummary, r, NoFaults)
    \/ \E pr \in PrimaryInputsFc : shortPoll(pr, FullSummary)
    \/ \E r \in ForecastInputsFc : longPoll(r)
    \/ remove_notices_all

SpecFc == Init /\ [][NextFc]_vars

----------------------------------------------------------------------------
(* The legacy Controller (src/aeris.py): configuration and observations *)

\* set_driver_uom: the table installed in self.uom; it never raises (the
\* per-entity calls are commented out)
legacy_set_driver_uom(units) == IF units = "metric" THEN "metric" ELSE "imperial"

\* the notices for the empty required parameters
legacy_notices(location, apikey) ==
    {n \in {"Location", "APIkey"} :
        \/ n = "Location" /\ location = ""
        \/ n = "APIkey" /\ apikey = ""}

\* custom[key] if the key is there, else the field's current value
Picked(custom, key, current) ==
    IF key \in DOMAIN custom THEN custom[key] ELSE current

\* check_params: the fields after it, `custom` being
\* self.polyConfig['customParams']
legacy_check_params(L, custom) ==
    LET location == Picked(custom, "Location", L.location)
        apikey   == Picked(custom, "APIkey", L.apikey)
        units    == Picked(custom, "Units", "metric")
    IN  [L EXCEPT !.location = location,
                  !.apikey = apikey,
                  !.elevation = Picked(custom, "Elevation", @),
                  !.plant_type = Picked(custom, "PlantType", @),
                  !.units = units,
                  !.configured = location # "" /\ apikey # "",
                  !.notices = legacy_notices(location, apikey),
                  !.uom = legacy_set_driver_uom(units)]

\* the key is in customParams with a value other than the field's
Differs(custom, key, current) ==
    key \in DOMAIN custom /\ custom[key] # current

\* process_config: the fields after it, `custom` being config['customParams'];
\* the local `changed` is followed through the five tests in program order
process_config_fields(L, custom) ==
    LET location == Picked(custom, "Location", L.location)
        apikey   == Picked(custom, "APIkey", L.apikey)
        units    == Picked(custom, "Units", L.units)
        changed1 == Differs(custom, "Location", L.location)
        changed2 == changed1 \/ Differs(custom, "APIkey", L.apikey)
        changed3 == IF Differs(custom, "Elevation", L.elevation)
                    THEN FALSE ELSE changed2
        changed4 == IF Differs(custom, "PlantType", L.plant_type)
                    THEN FALSE ELSE changed3
        changed  == changed4 \/ Differs(custom, "Units", L.units)
    IN  IF custom = L.myConfig THEN L
        ELSE [L EXCEPT
                !.location = location,
                !.apikey = apikey,
                !.elevation = Picked(custom, "Elevation", @),
                !.plant_type = Picked(custom, "PlantType", @),
                !.units = units,
                !.uom = IF Differs(custom, "Units", L.units)
                        THEN legacy_set_driver_uom(units) ELSE @,
                !.myConfig = custom,
                !.configured = IF changed
                               THEN location # "" /\ apikey # "" ELSE @,
                !.notices = IF changed
                            THEN legacy_notices(location, apikey) ELSE @]

\* the update_driver calls of query_conditions, in program order:
\* <<driver, key of ob>>
LegacyObsSteps ==
    << <<"CLITEMP", "tempC">>, <<"CLIHUM", "humidity">>,
       <<"BARPRES", "pressureMB">>, <<"GV4", "windSpeedKPH">>,
       <<"WINDDIR", "windDirDEG">>, <<"GV15", "visibilityKM">>,
       <<"GV6", "precipMM">> >>

\* the calls run in order outside any try block: ob[key] on a missing key, or
\* self.uom[driver] on the empty dictionary, raises KeyError and the exception
\* leaves query_conditions
RECURSIVE LegacyRunSteps(_, _, _, _)
LegacyRunSteps(i, ob, uom, w) ==
    IF i > Len(LegacyObsSteps) THEN [writes |-> w, raised |-> FALSE]
    ELSE IF LegacyObsSteps[i][2] \notin ob.keys \/ uom = ""
         THEN [writes |-> w, raised |-> TRUE]
         ELSE LegacyRunSteps(i + 1, ob, uom,
                  update_driver(w, LegacyObsSteps[i][1],
                                ObValue(ob, LegacyObsSteps[i][2])))

\* query_conditions: the history of the run.  http.request and json.loads
\* stand outside any try block: a failed request or a body that is not JSON
\* (kind "none") raises
legacy_query_conditions(L, op, primary) ==
    IF ~L.configured THEN LegacyRun(op, FALSE, <<>>, <<>>)
    ELSE IF primary.kind = "none"
         THEN LegacyRun(op, TRUE, <<"observations">>, <<>>)
    ELSE IF primary.kind \in {"noResponse", "noOb"}
         THEN LegacyRun(op, FALSE, <<"observations">>, <<>>)
    ELSE LET r == LegacyRunSteps(1, primary, L.uom, <<>>)
         IN  LegacyRun(op, r.raised, <<"observations">>, r.writes)

\* setDriver(driver, value, uom = uom) for the calls of `w`, in order
RECURSIVE Stored(_, _, _)
Stored(drivers, w, uom) ==
    IF w = <<>> THEN drivers
    ELSE Stored([drivers EXCEPT ![Head(w)[1]] = <<Head(w)[2], uom>>],
                Tail(w), uom)

\* start(): the five addNode calls name the undefined module owm_daily, so
\* each raises NameError inside its try block and no forecast entity is
\* created; then check_params and the initial query_conditions
legacy_start(custom, primary) ==
    LET L == legacy_check_params(legacy, custom)
        q == legacy_query_conditions(L, "start", primary)
    IN
    /\ ~legacy.started
    /\ legacy' = [L EXCEPT !.started = TRUE,
                           !.drivers = Stored(@, q.writes, L.uom)]
    /\ lhist' = q
    /\ UNCHANGED v3vars

\* process_config(config), config holding customParams
process_config(custom) ==
    /\ legacy' = process_config_fields(legacy, custom)
    /\ lhist' = LegacyRun("process_config", FALSE, <<>>, <<>>)
    /\ UNCHANGED v3vars

\* shortPoll(): query_conditions
legacy_shortPoll(primary) ==
    LET q == legacy_query_conditions(legacy, "shortPoll", primary) IN
    /\ lhist' = q
    /\ legacy' = [legacy EXCEPT !.drivers = Stored(@, q.writes, legacy.uom)]
    /\ UNCHANGED v3vars

\* longPoll(): the call of query_forecast is commented out
legacy_longPoll ==
    /\ lhist' = LegacyRun("longPoll", FALSE, <<>>, <<>>)
    /\ UNCHANGED legacy
    /\ UNCHANGED v3vars

\* the REMOVE_NOTICES_ALL command: removeNoticesAll()
legacy_remove_notices_all ==
    /\ legacy' = [legacy EXCEPT !.notices = {}]
    /\ lhist' = LegacyRun("remove_notices_all", FALSE, <<>>, <<>>)
    /\ UNCHANGED v3vars

\* customParams the host delivers: every key, or the required ones only
CustomInputs ==
    [Location : {"", "loc"}, APIkey : {"", "key"}, Elevation : {"0", "400"},
     PlantType : {"0.23"}, Units : {"metric", "imperial"}]
    \cup [Location : {"", "loc"}, APIkey : {"", "key"}]

\* observations responses: failed, without 'response', without 'ob', complete,
\* and with one of the keys query_conditions reads missing
LegacyPrimaryInputs ==
    {NoPrimary, [NoPrimary EXCEPT !.kind = "noResponse"],
     [NoPrimary EXCEPT !.kind = "noOb"], FullOb}
    \cup {[FullOb EXCEPT !.keys = ObKeys \ {k}] : k \in {"tempC", "precipMM"}}

NextLegacy ==
    \/ \E c \in CustomInputs, pr \in LegacyPrimaryInputs : legacy_start(c, pr)
    \/ \E c \in CustomInputs : process_config(c)
    \/ \E pr \in LegacyPrimaryInputs : legacy_shortPoll(pr)
    \/ legacy_longPoll
    \/ legacy_remove_notices_all

SpecLegacy == Init /\ [][NextLegacy]_vars

----------------------------------------------------------------------------
(* The legacy Controller (src/aeris.py): update_driver, the driver sink, *)
(* called with any driver and any value.                                 *)

\* an exception leaves update_driver: float(value) and setDriver stand in
\* the try block, the bare "except:" catches whatever they raise and its
\* handler only logs the driver's name
update_driver_raises(driver, value) == FALSE

\* update_driver(driver, value, uom)
legacy_update_driver(driver, value, uom) ==
    LET w == update_driver(<<>>, driver, value) IN
    /\ legacy' = [legacy EXCEPT !.drivers = Stored(@, w, uom)]
    /\ lhist' = [LegacyRun("update_driver", update_driver_raises(driver, value),
                           <<>>, w)
                    EXCEPT !.call = <<driver, value, uom>>]
    /\ UNCHANGED v3vars

\* the arguments of the calls: two drivers; a number, a numeral string, two
\* strings that are no numerals, and None; the unit of either table
SinkDrivers == {"CLITEMP", "GV6"}
SinkValues == {Num(1), Str("12"), Str("N/A"), Str(""), JNull}
SinkUoms == {"metric", "imperial"}

NextSink ==
    \E d \in SinkDrivers, v \in SinkValues, u \in SinkUoms :
        legacy_update_driver(d, v, u)

SpecSink == Init /\ [][NextSink]_vars

----------------------------------------------------------------------------
(* The legacy Controller (src/aeris.py): query_forecast, the aggregation of *)
(* sub-day buckets.  start() and longPoll() have their calls of it          *)
(* commented out; the action below is a call of the method.                 *)

\* float division keeps the quotient; the model keeps numerator and
\* denominator
Rat(n) == [num |-> n, den |-> 1]
RatAdd(r, n) == [num |-> r.num + n * r.den, den |-> r.den]
RatDiv(r, k) == [num |-> r.num, den |-> r.den * k]
RatEq(a, b) == a.num * b.den = b.num * a.den

\* dt[1] of a bucket: the day-start marker, the day-end marker, and one
\* value for every time of day between them
DayStart == "00:00:00"
MidDay == "12:00:00"
DayEnd == "21:00:00"

\* the values a bucket carries, by level
Levels == 1..3
Temperature == <<10, 25, 5>>
Humidity == <<40, 70, 20>>
Pressure == <<1000, 1010, 1020>>
Speed == <<3, 6, 12>>
Clouds == <<0, 40, 100>>
WeatherId == <<800, 500, 600>>

\* one element of jdata['list'], with the fields query_forecast reads
Bucket(time, k) ==
    [time |-> time, temp_max |-> Temperature[k], temp_min |-> Temperature[k],
     humidity |-> Humidity[k], pressure |-> Pressure[k],
     weather |-> WeatherId[k], speed |-> Speed[k], clouds |-> Clouds[k],
     dt |-> k]

\* "if dt[1] == '00:00:00'": the values of the day's first bucket; uv_data is
\* indexed by day - 1 inside try/except, 0 when that fails
Seed(f, day, uvd) ==
    [temp_max |-> f.temp_max, temp_min |-> f.temp_min,
     Hmax |-> f.humidity, Hmin |-> f.humidity,
     pressure |-> Rat(f.pressure), weather |-> f.weather,
     speed |-> Rat(f.speed), clouds |-> Rat(f.clouds), dt |-> f.dt,
     uv |-> IF day <= Len(uvd) THEN uvd[day] ELSE 0]

\* a faulty Fold: the test of temp_min is the one of temp_max
Fold_min_as_max(fcast, f) ==
    [fcast EXCEPT
        !.temp_max = IF f.temp_max > @ THEN f.temp_max ELSE @,
        !.temp_min = IF f.temp_min > @ THEN f.temp_min ELSE @,
        !.Hmax = IF f.humidity > @ THEN f.humidity ELSE @,
        !.Hmin = IF f.humidity < @ THEN f.humidity ELSE @,
        !.pressure = RatAdd(@, f.pressure),
        !.speed = RatAdd(@, f.speed),
        !.clouds = RatAdd(@, f.clouds)]

\* "elif start": the high/low tests and the sums of a later bucket
Fold(fcast, f) ==
    [fcast EXCEPT
        !.temp_max = IF f.temp_max > @ THEN f.temp_max ELSE @,
        !.temp_min = IF f.temp_min < @ THEN f.temp_min ELSE @,
        !.Hmax = IF f.humidity > @ THEN f.humidity ELSE @,
        !.Hmin = IF f.humidity < @ THEN f.humidity ELSE @,
        !.pressure = RatAdd(@, f.pressure),
        !.speed = RatAdd(@, f.speed),
        !.clouds = RatAdd(@, f.clouds)]

\* the three "/=" of a closing day
Averaged(fcast, divisor) ==
    [fcast EXCEPT !.pressure = RatDiv(@, divisor),
                  !.speed = RatDiv(@, divisor),
                  !.clouds = RatDiv(@, divisor)]

\* the partial-day dispatch passes 400 and 0.23 in place of self.elevation
\* and self.plant_type
PartialElevation == "400 (number)"
PartialPlantType == "0.23 (number)"

\* history of one closed day: the arguments of its update_forecast call, the
\* buckets accumulated into it, and whether self.nodes['forecast_<day>']
\* was there to take the call
CloseRecord(st, fcast, partial, elevation, plant_type, delivered) ==
    [day |-> st.day, fcast |-> fcast, count |-> st.count, buckets |-> st.seen,
     partial |-> partial, elevation |-> elevation, plant_type |-> plant_type,
     delivered |-> delivered]

\* the locals of query_forecast before the loop, self.fcast, and the history
AggInit(L) ==
    [fcast |-> L.fcast, day |-> 1, start |-> FALSE, count |-> 0, seen |-> <<>>,
     closes |-> <<>>, raised |-> FALSE]

\* one pass of the loop body for bucket f; self.nodes[address] raises
\* KeyError for a missing entity, outside any try block
AggStep(st, f, L, uvd) ==
    LET a == IF f.time = DayStart
             THEN [st EXCEPT !.fcast = Seed(f, st.day, uvd), !.start = TRUE,
                             !.count = 1, !.seen = <<f>>]
             ELSE IF st.start
                  THEN [st EXCEPT !.fcast = Fold(@, f), !.count = @ + 1,
                                  !.seen = Append(@, f)]
                  ELSE st
        closed == Averaged(a.fcast, FixedDivisor)
        record == CloseRecord(a, closed, FALSE, L.elevation, L.plant_type,
                              a.day \in L.nodes)
    IN  IF f.time = DayEnd /\ a.start
        THEN IF a.day \in L.nodes
             THEN [a EXCEPT !.fcast = closed, !.closes = Append(@, record),
                            !.day = @ + 1, !.start = FALSE, !.count = 0,
                            !.seen = <<>>]
             ELSE [a EXCEPT !.fcast = closed, !.closes = Append(@, record),
                            !.raised = TRUE]
        ELSE a

\* "for forecast in jdata['list']", left at the first exception
RECURSIVE AggLoop(_, _, _, _, _)
AggLoop(i, list, st, L, uvd) ==
    IF i > Len(list) \/ st.raised THEN st
    ELSE AggLoop(i + 1, list, AggStep(st, list[i], L, uvd), L, uvd)

\* "if start:" after the loop: the partial day
AggPartial(st, L) ==
    LET closed == Averaged(st.fcast, st.count)
        record == CloseRecord(st, closed, TRUE, PartialElevation,
                              PartialPlantType, st.day \in L.nodes)
    IN  IF st.raised \/ ~st.start THEN st
        ELSE [st EXCEPT !.fcast = closed, !.closes = Append(@, record),
                        !.raised = st.day \notin L.nodes]

\* query_forecast(): resp is the forecast response, uvd the list of the UV
\* response.  Kind "none" is a failed request or a body that is not JSON:
\* http.request and json.loads stand outside any try block.
legacy_query_forecast(resp, uvd) ==
    LET looped == AggLoop(1, resp.list, AggInit(legacy), legacy, uvd)
        done   == AggPartial(looped, legacy)
    IN
    /\ UNCHANGED v3vars
    /\ IF ~legacy.configured
       THEN /\ lhist' = LegacyRun("query_forecast", FALSE, <<>>, <<>>)
            /\ UNCHANGED legacy
       ELSE IF resp.kind = "none"
       THEN /\ lhist' = LegacyRun("query_forecast", TRUE, <<"forecast">>, <<>>)
            /\ UNCHANGED legacy
       ELSE IF resp.kind = "noList"
       THEN /\ lhist' = LegacyRun("query_forecast", FALSE,
                                  <<"forecast", "uvi/forecast">>, <<>>)
            /\ UNCHANGED legacy
       ELSE /\ lhist' = [LegacyRun("query_forecast", done.raised,
                                   <<"forecast", "uvi/forecast">>, <<>>)
                            EXCEPT !.closes = done.closes,
                                   !.open = ~looped.raised /\ looped.start]
            /\ legacy' = [legacy EXCEPT !.fcast = done.fcast]

\* the time of day that may follow another in a chronological list
Follows(a, b) ==
    \/ a = DayStart /\ b = MidDay
    \/ a = MidDay /\ b \in {MidDay, DayEnd}
    \/ a = DayEnd /\ b = DayStart

Buckets == {Bucket(t, k) : t \in {DayStart, MidDay, DayEnd}, k \in Levels}

\* jdata['list']: up to MaxBuckets buckets in chronological order, starting
\* at any time of day
BucketLists ==
    {l \in UNION {[1..n -> Buckets] : n \in 0..MaxBuckets} :
        \A i \in 1..(Len(l) - 1) : Follows(l[i].time, l[i + 1].time)}

ForecastRespInputs ==
    {[kind |-> k, list |-> <<>>] : k \in {"none", "noList"}}
    \cup {[kind |-> "list", list |-> l] : l \in BucketLists}

\* the list of the UV forecast response
UvInputs == {<<>>, <<4>>}

\* <<forecast response, UV list>> of one call: every forecast response with
\* a UV value for the first day, the shortest ones also without
ForecastCallInputs ==
    (ForecastRespInputs \X {<<4>>})
    \cup ({r \in ForecastRespInputs : Len(r.list) <= 1} \X UvInputs)

CustomInputsFc ==
    {c \in CustomInputs : /\ DOMAIN c = {"Location", "APIkey"}
                          /\ c.Location = "loc"}

NextLegacyFc ==
    \/ \E c \in CustomInputsFc : legacy_start(c, FullOb)
    \/ \E io \in ForecastCallInputs : legacy_query_forecast(io[1], io[2])

SpecLegacyFc == Init /\ [][NextLegacyFc]_vars

----------------------------------------------------------------------------
(* Properties *)

\* the drivers set by the calls of `w`
Written(w) == {w[i][1] : i \in 1..Len(w)}

\* the latest handler ran a query that passed the `configured` gate
ObsPolled == obs.ran /\ obs.requests # <<>>

\* the latest handler ran a forecast query that passed the `configured` gate
FcPolled == fc.ran /\ fc.requests # <<>>

\* the drivers the first try block of query_conditions sets
PrimaryDrivers == {ObsSteps[i].driver : i \in 1..Len(ObsSteps)} \ {""}

\* the drivers derived from the coded-weather string
CodeDrivers == {"GV11", "GV12", "GV13"}

\* the endpoints requested by the latest query_conditions
ObsRequested == {obs.requests[i] : i \in 1..Len(obs.requests)}

\* the summary response carries no usable precipitation total
SummaryAbsent == obs.summary.kind \in {"none", "noResponse", "noPeriods", "noPrecip"}

\* C1: once started, a poll (query_conditions or query_forecast) that begins
\* while a required parameter is unset or at its default issues no HTTP
\* request and sets no driver, also when the parameter had been set before.
C1_NoPollWhileUnset ==
    (started /\ ~isConfigured(params)) =>
        /\ obs.ran => (obs.requests = <<>> /\ obs.writes = <<>>)
        /\ fc.ran => (fc.requests = <<>> /\ fc.attempts = <<>>)

\* C2: when exactly one field's key is missing from the observation object,
\* every other driver of the first try block is set in that poll and the
\* missing field's driver is the only one that is not.
C2_FieldsIndependent ==
    \A i \in 1..Len(ObsSteps) :
        ( /\ ObsPolled
          /\ ObsSteps[i].op = "field"
          /\ ObsSteps[i].field \in DOMAIN tag
          /\ obs.primary.kind = "ob"
          /\ obs.primary.nulls = {}
          /\ obs.primary.segs = 3
          /\ ObKeys \ obs.primary.keys = {tag[ObsSteps[i].field]} )
        => Written(obs.writes) \cap PrimaryDrivers
              = PrimaryDrivers \ {ObsSteps[i].driver}

\* C3: every observation poll that runs while configured requests the
\* precipitation summary, whatever the outcome of the observations request.
C3_SummaryAlwaysRequested ==
    (obs.ran /\ configured) => "observations/summary" \in ObsRequested

\* C4: after discover has run with horizon h, the forecast entities are
\* exactly those with an index in [0, h).
C4_ReconcileExact ==
    reconciled => nodes = 0..(params.ForecastDays - 1)

\* C5: the horizon is clamped to 6 on every path: no forecast entity with an
\* index of 6 or more ever exists.
C5_HorizonClamped ==
    \A d \in nodes : d < MaxHorizon

\* C6: a forecast poll dispatches (or attempts to dispatch) at most
\* 'Forecast Days' periods, also when 'Forecast Days' is 0.
C6_DispatchWithinHorizon ==
    fc.ran => Len(fc.attempts) <= params.ForecastDays

\* C7: when the coded-weather string has fewer than three parts, none of
\* GV11, GV12, GV13 is set in that poll and every other driver of the first
\* try block, GV14 included, is.
C7_MalformedCodeSkipsTriplet ==
    ( /\ ObsPolled
      /\ tag # EmptyTag
      /\ obs.primary.kind = "ob"
      /\ obs.primary.keys = ObKeys
      /\ obs.primary.nulls = {}
      /\ obs.primary.segs < 3 )
    => Written(obs.writes) \cap PrimaryDrivers = PrimaryDrivers \ CodeDrivers

\* C8: when the precipitation summary is absent and the observation carried
\* a precipitation value, GV6 is set to that value in the same poll.
C8_PrecipFallsBackToPrimary ==
    ( /\ obs.ran /\ configured
      /\ tag # EmptyTag
      /\ obs.primary = FullOb
      /\ SummaryAbsent )
    => \E i \in 1..Len(obs.writes) :
          obs.writes[i] = <<"GV6", KeyValue(tag["precipitation"])>>

\* C9: when neither the precipitation summary nor a precipitation value of
\* the observation is available, GV6 is not set in that poll.
C9_PrecipLeftUnset ==
    ( /\ obs.ran /\ configured
      /\ tag # EmptyTag
      /\ SummaryAbsent
      /\ \/ obs.primary.kind # "ob"
         \/ tag["precipitation"] \notin obs.primary.keys
         \/ tag["precipitation"] \in obs.primary.nulls )
    => "GV6" \notin Written(obs.writes)

\* C10: after start, every poll that queries the provider finds the tag map
\* of the currently configured unit system, whole: the map follows a change
\* of Units.
C10_TagsFollowUnits ==
    (started /\ (ObsPolled \/ FcPolled)) => tag = TagBranch(params.Units)

\* C11: when start() resolves the tag map (set_tags) for a Units value other
\* than 'metric' or 'imperial', the resolution fails and installs no tag
\* mapping: the tag map is after start() what it was before.
C11_InvalidUnitsInstallNothing ==
    [][(~started /\ started' /\ params'.Units \notin ValidUnits) => tag' = tag]_vars

\* the logical field names the specification lists for C12
C12_Fields ==
    {"temperature", "humidity", "pressure", "windspeed", "gustspeed", "winddir",
     "visibility", "dewpoint", "heatindex", "windchill", "feelslike", "solarrad",
     "uv", "snow", "precipitation", "precip_summary"}

\* C12: for both unit systems the tag map set_tags produces has an entry for
\* every logical field name the queries look up (the sixteen listed names,
\* which are the ones query_conditions uses), and the two maps have the same
\* key set; after start() self.tag is such a map.
C12_TagMapCoversLookups ==
    /\ LookedUpFields = C12_Fields
    /\ \A u \in ValidUnits : C12_Fields \subseteq DOMAIN set_tags(EmptyTag, u)
    /\ DOMAIN set_tags(EmptyTag, "metric") = DOMAIN set_tags(EmptyTag, "imperial")
    /\ started => C12_Fields \subseteq DOMAIN tag

\* C12 witness: a metric poll after start() has looked up every field, the
\* precipitation summary included, and set GV6 from the summary total
C12_Witness ==
    /\ started
    /\ params.Units = "metric"
    /\ tag = set_tags(EmptyTag, "metric")
    /\ ObsPolled
    /\ PrimaryDrivers \subseteq Written(obs.writes)
    /\ \E i \in 1..Len(obs.writes) :
          obs.writes[i] = <<"GV6", TotalValue(tag["precip_summary"])>>

\* C13 as stated: a notice raised for a missing required parameter persists
\* until the configuration changes: the notice set is emptied only by a step
\* that changes the parameters, never by the REMOVE_NOTICES_ALL command or by
\* a poll.
C13_ClearedOnlyByConfigChange ==
    [][(Notices # {} /\ Notices' = {}) => params' # params]_vars

\* C13 amended: the notice set is emptied only by a step that changes the
\* parameters or by the REMOVE_NOTICES_ALL command, never by a poll.
C13_ClearedByConfigChangeOrCommand ==
    [][(Notices # {} /\ Notices' = {}) => (params' # params \/ remove_notices_all)]_vars

\* C13 witness: after a start() that raised the three notices, a poll has run
\* (and was skipped, the controller being unconfigured) and the notices are
\* still there
C13_Witness ==
    /\ started
    /\ ~isConfigured(params)
    /\ Notices = RequiredParams
    /\ obs.ran
    /\ obs.requests = <<>>

\* C14: the force flag handed to the forecast entities is true only during
\* the first update cycle: once one forecast poll has run to completion after
\* start(), every dispatch of a later forecast poll passes force = false, also
\* when the controller was unconfigured at start() and configured afterwards.
C14_ForceOnlyFirstCycle ==
    [][(started /\ FcPolled /\ fc'.ran /\ fc'.delivered # <<>>) => ~fc'.force]_vars

\* the indices whose delNode or addNode failed in the latest discover
FaultyIndices == disc.faults.del \cup disc.faults.add

\* C15: in discover a failure to delete or create the entity of one index
\* does not abort reconciliation: whatever the set of failing indices, every
\* other index is processed (its entity exists afterwards iff the index is
\* below the horizon) and discover completes without raising.
C15_DiscoverToleratesFailures ==
    disc.ran =>
        /\ \A d \in (0..(MaxNodes - 1)) \ FaultyIndices :
              d \in nodes <=> d < params.ForecastDays
        /\ ~disc.raised

\* C16: no transport failure and no malformed or partial payload crashes the
\* poll loop: whatever the outcome of the HTTP call, the poll handler
\* (shortPoll -> query_conditions, longPoll) returns normally, no exception
\* leaving it.
C16_PollNeverRaises ==
    lhist.op \in {"shortPoll", "longPoll"} => ~lhist.raised

\* C20: in the legacy Controller, after check_params and any sequence of
\* process_config calls, the configured flag is true iff both required
\* parameters (Location, APIkey) are currently non-empty, whichever optional
\* parameters changed in the same update.
C20_ConfiguredIffRequiredSet ==
    legacy.started =>
        (legacy.configured <=> (legacy.location # "" /\ legacy.apikey # ""))

\* the sum, the largest and the smallest value of a field over buckets
RECURSIVE SumField(_, _)
SumField(buckets, field) ==
    IF buckets = <<>> THEN 0
    ELSE Head(buckets)[field] + SumField(Tail(buckets), field)

MaxField(buckets, field) ==
    CHOOSE v \in {buckets[i][field] : i \in 1..Len(buckets)} :
        \A i \in 1..Len(buckets) : buckets[i][field] <= v

MinField(buckets, field) ==
    CHOOSE v \in {buckets[i][field] : i \in 1..Len(buckets)} :
        \A i \in 1..Len(buckets) : buckets[i][field] >= v

\* the averaged fields of a closed day are the sums over its buckets divided
\* by their number
AveragedByCount(close) ==
    \A field \in {"pressure", "speed", "clouds"} :
        RatEq(close.fcast[field],
              [num |-> SumField(close.buckets, field),
               den |-> Len(close.buckets)])

\* the days closed by the latest query_forecast
Closes == {lhist.closes[i] : i \in 1..Len(lhist.closes)}

\* C17: when a day is closed at the day-end marker, each averaged field
\* (pressure, wind speed, cloud cover) is the running sum divided by the
\* number of buckets accumulated for that day, not by a fixed divisor: three
\* buckets with pressures 1000, 1010, 1020 close with pressure 1010.
C17_FullDayAveragedByCount ==
    \A close \in Closes : ~close.partial => AveragedByCount(close)

\* C18: a day that has started and whose end marker is not seen before the
\* input ends is still closed and dispatched, each averaged field being the
\* running sum divided by the number of buckets seen for that day.
C18_PartialDayClosedAndDispatched ==
    (lhist.op = "query_forecast" /\ lhist.open) =>
        \E close \in Closes :
            /\ close.partial
            /\ close.count = Len(close.buckets)
            /\ AveragedByCount(close)
            /\ close.delivered

\* C19: for every day that is closed, temp_max is the largest and temp_min
\* the smallest temperature over all of that day's buckets, in whatever
\* order they come, and likewise the humidity maximum and minimum; a day of
\* one bucket has maximum and minimum equal to that bucket's own values.
C19_MinMaxOverDay ==
    \A close \in Closes :
        /\ close.buckets # <<>>
        /\ close.fcast.temp_max = MaxField(close.buckets, "temp_max")
        /\ close.fcast.temp_min = MinField(close.buckets, "temp_min")
        /\ close.fcast.Hmax = MaxField(close.buckets, "humidity")
        /\ close.fcast.Hmin = MinField(close.buckets, "humidity")
        /\ Len(close.buckets) = 1 =>
              /\ close.fcast.temp_max = close.buckets[1].temp_max
              /\ close.fcast.temp_min = close.buckets[1].temp_min

\* C19 witness: a day of three buckets with temperatures 10, 25, 5 in that
\* order, the largest neither first nor last and the smallest last, has
\* closed with temp_max 25 and temp_min 5
C19_Witness ==
    \E close \in Closes :
        /\ Len(close.buckets) = Len(Temperature)
        /\ \A i \in 1..Len(close.buckets) :
              close.buckets[i].temp_max = Temperature[i]
        /\ close.fcast.temp_max = MaxField(close.buckets, "temp_max")
        /\ close.fcast.temp_max # close.buckets[1].temp_max
        /\ close.fcast.temp_min # close.buckets[1].temp_min

\* C21: in the v3 query_forecast every dispatch hands on the provider's day
\* record as it was received: the i-th call (from 0) carries the i-th record
\* of the response with every field unchanged, one call per record, with no
\* folding of records and no day-boundary detection between reception and
\* dispatch.
C21_RecordsHandedUnchanged ==
    /\ Len(fc.calls) = Len(fc.delivered)
    /\ \A i \in 1..Len(fc.calls) :
          /\ fc.calls[i].day = i - 1
          /\ fc.delivered[i] = i - 1
          /\ fc.calls[i].forecast = fc.periods[i]

\* C21 witness: a response of two records that carry the same date has been
\* dispatched as two calls, each with its own record
C21_Witness ==
    /\ Len(fc.calls) = 2
    /\ fc.calls[1].forecast.dateTimeISO = fc.calls[2].forecast.dateTimeISO
    /\ fc.calls[1].forecast = fc.periods[1]
    /\ fc.calls[2].forecast = fc.periods[2]

\* the values float() rejects: None and the strings that are no numerals
NotCoercible == {JNull, Str("N/A"), Str("")}

\* C22: update_driver never raises: whatever the driver and the value (a
\* number, a numeral string, another string, None), the call returns
\* normally; a value that cannot be coerced to a number leaves every stored
\* driver value as it was, and a value that can sets the named driver to
\* that number and no other driver.
C22_SinkNeverRaises ==
    [][lhist'.op = "update_driver" =>
          /\ ~lhist'.raised
          /\ lhist'.call[2] \in NotCoercible => legacy'.drivers = legacy.drivers
          /\ lhist'.call[2] \notin NotCoercible =>
                legacy'.drivers =
                    [legacy.drivers EXCEPT ![lhist'.call[1]] =
                        <<IF lhist'.call[2] = Num(1) THEN 1 ELSE 12,
                          lhist'.call[3]>>]]_vars

\* C22 witness: a driver holds the number an earlier call stored, and the
\* latest call, for the same driver with None, has returned
C22_Witness ==
    /\ lhist.op = "update_driver"
    /\ ~lhist.raised
    /\ lhist.call[2] = JNull
    /\ legacy.drivers[lhist.call[1]] = <<12, "imperial">>

\* the number of requests of `requests` that go to `endpoint`
Count(requests, endpoint) ==
    Cardinality({i \in 1..Len(requests) : requests[i] = endpoint})

\* the endpoints of the observation queries
ObsEndpoints == {"observations", "observations/summary"}

\* C23: there is no retry within a poll cycle: a handler issues at most one
\* request per endpoint; a short poll requests only 'observations' and
\* 'observations/summary' and never 'forecasts', a long poll only
\* 'forecasts'; after a failed request the same poll issues no further
\* request to that endpoint (the next attempt is the next poll's).
C23_NoRetryWithinPoll ==
    [][ /\ \A e \in ObsEndpoints \cup {"forecasts"} :
              Count(obs'.requests \o fc'.requests, e) <= 1
        /\ (started' = started /\ obs'.ran) =>
              /\ fc'.requests = <<>>
              /\ \A i \in 1..Len(obs'.requests) : obs'.requests[i] \in ObsEndpoints
        /\ (started' = started /\ fc'.ran) =>
              /\ obs'.requests = <<>>
              /\ \A i \in 1..Len(fc'.requests) : fc'.requests[i] = "forecasts"
        /\ (obs'.ran /\ obs'.requests # <<>> /\ obs'.primary.kind = "none") =>
              Count(obs'.requests, "observations") = 1
        /\ (fc'.ran /\ fc'.requests # <<>> /\ fc'.periods = <<>>) =>
              fc'.requests = <<"forecasts">> ]_vars

\* C23 witness: after start a configured short poll whose observations
\* request failed has ended with that one request issued
C23_Witness ==
    /\ started
    /\ configured
    /\ obs.ran
    /\ ~fc.ran
    /\ obs.primary.kind = "none"
    /\ obs.requests = <<"observations">>

\* C24: every forecast dispatch targets an entity that exists: when the
\* response holds no more periods than 'Forecast Days', period i (from 0, in
\* increasing order, each index once) goes to forecast_<i>, which is there
\* to take it, after any sequence of parameter updates; no period is left
\* undispatched for want of an entity.
C24_DispatchTargetsExist ==
    (started /\ FcPolled /\ Len(fc.periods) <= params.ForecastDays) =>
        /\ \A i \in 1..Len(fc.attempts) :
              fc.attempts[i] = i - 1 /\ fc.attempts[i] \in nodes
        /\ fc.delivered = fc.attempts
        /\ Len(fc.delivered) = Len(fc.periods)

\* C25: the cached latitude changes only in a step that runs
\* query_conditions on a response that contains response.loc.lat, and it
\* then holds that value, whatever the step before had left (last writer
\* wins); an observation response with an observation object and a location
\* sets it also when a later field fails; every other step (a forecast poll,
\* a parameter update with or without discover, REMOVE_NOTICES_ALL, an
\* observation poll that is skipped, fails, or has no location) leaves it.
C25_LatitudeFrame ==
    [][ /\ latitude' # latitude =>
              /\ ObsPolled'
              /\ obs'.primary.loc # <<>>
              /\ latitude' = obs'.primary.loc[1]
        /\ (ObsPolled' /\ obs'.primary.kind = "ob" /\ obs'.primary.loc # <<>>) =>
              latitude' = obs'.primary.loc[1]
        /\ (~ObsPolled' \/ obs'.primary.loc = <<>>
              \/ obs'.primary.kind \in {"none", "noResponse"}) =>
              latitude' = latitude ]_vars

\* C25 witness: the latitude an earlier observation poll captured is still
\* cached after an observation poll whose response had no location
C25_Witness ==
    /\ ObsPolled
    /\ obs.primary.kind = "ob"
    /\ obs.primary.loc = <<>>
    /\ latitude = 50

\* C26: whenever a poll extracts fields (it runs while `configured` is true
\* and has an observation object to read), the tag map has been populated
\* by set_tags: no interleaving of parameterHandler, start and poll events
\* has a configured poll look up a field in the initial empty tag map.
C26_TagsBeforeConfiguredPoll ==
    (ObsPolled /\ obs.primary.kind = "ob") => tag # EmptyTag

\* C27: every forecast dispatch of the legacy query_forecast passes the
\* currently configured elevation and plant-type coefficient, for a day
\* closed at the day-end marker and for the partial last day alike.
C27_DispatchPassesConfiguredContext ==
    \A close \in Closes :
        /\ close.elevation = legacy.elevation
        /\ close.plant_type = legacy.plant_type

====
